---- MODULE Spec2Model ----
(***************************************************************************)
(* ProphAI backend (src/app.py): the two FastAPI handlers, POST /analyze   *)
(* and POST /chat, on the server's single event loop, together with the    *)
(* pipeline /analyze runs on the text the completion service returns:      *)
(* json.loads, the two list-to-string repairs, the pydantic validation of  *)
(* AnalysisResult and the two except clauses.                              *)
(*                                                                         *)
(* Values.  A Python/JSON value is a tagged record: JInt(n), JStr(s),      *)
(* JList(<<...>>), JObj(mapping), JNull.  A response text is NoText        *)
(* (response.text is None), a text that is not JSON, or the JSON text of a *)
(* value v; json_loads is the standard library's parser seen through that  *)
(* abstraction.  An exception is a class name and its message; Bases gives *)
(* the classes an exception of a class is an instance of.                  *)
(*                                                                         *)
(* Libraries the source calls and does not define are modelled by their    *)
(* documented behaviour: google.genai.errors.APIError.__init__ requires    *)
(* (code, response_json); pydantic validates in its default (lax) mode;    *)
(* generate_content is the synchronous client call.                        *)
(***************************************************************************)
EXTENDS Integers, Sequences, FiniteSets, TLC

VARIABLES API_KEY, pc, request, loop, call, outcome, analysis_data, resp, stdout

vars == <<API_KEY, pc, request, loop, call, outcome, analysis_data, resp, stdout>>

(***************************************************************************)
(* Bounds of the model.                                                    *)
(***************************************************************************)
\* simultaneous requests in ConcSpec
NumRequests == 2
\* fields of the base object a response text may deviate in
MaxDeviations == 2
\* integers the decimal parser is searched over: -MaxInt..MaxInt
MaxInt == 150

(***************************************************************************)
(* Python / JSON values                                                    *)
(***************************************************************************)
JInt(n) == [k |-> "int", n |-> n]
JStr(s) == [k |-> "str", s |-> s]
JList(xs) == [k |-> "list", items |-> xs]
JObj(m) == [k |-> "obj", m |-> m]
JNull == [k |-> "null"]
\* a local name that was never assigned
Unbound == [k |-> "unbound"]

\* dict.get(key): the value, or None
DictGet(d, key) == IF key \in DOMAIN d.m THEN d.m[key] ELSE JNull

\* d[key] = v
DictSet(d, key, v) ==
    JObj([f \in (DOMAIN d.m) \cup {key} |-> IF f = key THEN v ELSE d.m[f]])

(***************************************************************************)
(* Exceptions: class names and the classes each is an instance of          *)
(***************************************************************************)
Bases ==
    [ APIError        |-> {"APIError", "Exception"},
      ClientError     |-> {"ClientError", "APIError", "Exception"},
      ServerError     |-> {"ServerError", "APIError", "Exception"},
      ConnectError    |-> {"ConnectError", "Exception"},
      ReadTimeout     |-> {"ReadTimeout", "Exception"},
      JSONDecodeError |-> {"JSONDecodeError", "ValueError", "Exception"},
      ValidationError |-> {"ValidationError", "ValueError", "Exception"},
      ValueError      |-> {"ValueError", "Exception"},
      TypeError       |-> {"TypeError", "Exception"},
      AttributeError  |-> {"AttributeError", "Exception"} ]

Exc(cls, msg) == [cls |-> cls, msg |-> msg]

\* isinstance(e, classes)
IsInstance(e, classes) == Bases[e.cls] \cap classes # {}

Raise(e) == [kind |-> "raise", exc |-> e]
Return(v) == [kind |-> "return", value |-> v]

\* raise APIError(*args): the constructor takes (code, response_json[, response]);
\* with fewer than two arguments the call itself raises TypeError
NewAPIError(args) ==
    IF Len(args) < 2
    THEN Exc("TypeError",
             "APIError.__init__() missing 1 required positional argument: 'response_json'")
    ELSE Exc("APIError", args[2])

(***************************************************************************)
(* Response texts and json.loads                                           *)
(***************************************************************************)
NoText == [k |-> "none"]
JsonText(v) == [k |-> "text", json |-> v]
NotJsonText(s) == [k |-> "text", garbage |-> s]

IsJsonText(t) == t.k = "text" /\ "json" \in DOMAIN t

\* json.loads(text)
json_loads(t) ==
    IF t.k = "none"
    THEN Raise(Exc("TypeError",
                   "the JSON object must be str, bytes or bytearray, not NoneType"))
    ELSE IF IsJsonText(t) THEN Return(t.json)
    ELSE Raise(Exc("JSONDecodeError", "Expecting value: line 1 column 1 (char 0)"))

(***************************************************************************)
(* ' '.join(list)                                                          *)
(***************************************************************************)
\* variant with a plausible slip: the elements concatenated with nothing between them
RECURSIVE JoinStrsNoSeparator(_)
JoinStrsNoSeparator(xs) ==
    IF Len(xs) = 0 THEN ""
    ELSE xs[1].s \o JoinStrsNoSeparator(Tail(xs))

RECURSIVE JoinStrs(_)
JoinStrs(xs) ==
    IF Len(xs) = 0 THEN ""
    ELSE IF Len(xs) = 1 THEN xs[1].s
    ELSE xs[1].s \o " " \o JoinStrs(Tail(xs))

\* str.join raises TypeError on an item that is not a str
SpaceJoin(xs) ==
    IF \A i \in 1..Len(xs) : xs[i].k = "str"
    THEN Return(JStr(JoinStrs(xs)))
    ELSE Raise(Exc("TypeError", "sequence item: expected str instance"))

\* if isinstance(d.get(key), list): d[key] = ' '.join(d[key])
ListToString(d, key) ==
    IF DictGet(d, key).k = "list"
    THEN LET j == SpaceJoin(d.m[key].items)
         IN  IF j.kind = "raise" THEN j ELSE Return(DictSet(d, key, j.value))
    ELSE Return(d)

(***************************************************************************)
(* pydantic models (default, lax validation)                               *)
(***************************************************************************)
Invalid == [ok |-> FALSE]
Valid(v) == [ok |-> TRUE, v |-> v]

Digits == <<"0", "1", "2", "3", "4", "5", "6", "7", "8", "9">>

\* str(n) for an integer n
RECURSIVE DecStr(_)
DecStr(n) ==
    IF n < 0 THEN "-" \o DecStr(0 - n)
    ELSE IF n < 10 THEN Digits[n + 1]
    ELSE DecStr(n \div 10) \o Digits[(n % 10) + 1]

\* the integer a string is the decimal numeral of, if any
IntOfStr(s) ==
    LET hits == {n \in (0 - MaxInt)..MaxInt : DecStr(n) = s}
    IN  IF hits = {} THEN Invalid ELSE Valid(JInt(CHOOSE n \in hits : TRUE))

\* field: int -- an int is kept, a numeric string is converted, the rest rejected
ValidateInt(v) ==
    IF v.k = "int" THEN Valid(v)
    ELSE IF v.k = "str" THEN IntOfStr(v.s)
    ELSE Invalid

\* field: str
ValidateStr(v) == IF v.k = "str" THEN Valid(v) ELSE Invalid

\* field: dict
ValidateDict(v) == IF v.k = "obj" THEN Valid(v) ELSE Invalid

\* a BaseModel whose fields are all str: every field required, extra keys ignored
ValidateStrModel(fields, v) ==
    IF v.k = "obj"
       /\ \A f \in fields : f \in DOMAIN v.m /\ ValidateStr(v.m[f]).ok
    THEN Valid(JObj([f \in fields |-> v.m[f]]))
    ELSE Invalid

TechStackDetailFields == {"component", "technology", "justification"}
CompetitorDetailFields == {"competitor", "similarFeatures", "differentiation"}

\* variant with a plausible slip: the model declared without its justification field
TechStackDetailTwoFields(v) == ValidateStrModel({"component", "technology"}, v)

TechStackDetail(v) == ValidateStrModel(TechStackDetailFields, v)
CompetitorDetail(v) == ValidateStrModel(CompetitorDetailFields, v)

\* an item of a list[T] field
ValidateItem(T, v) ==
    IF T = "str" THEN ValidateStr(v)
    ELSE IF T = "dict" THEN ValidateDict(v)
    ELSE IF T = "TechStackDetail" THEN TechStackDetail(v)
    ELSE CompetitorDetail(v)

\* field: list[T]
ValidateList(T, v) ==
    IF v.k = "list" /\ \A i \in 1..Len(v.items) : ValidateItem(T, v.items[i]).ok
    THEN Valid(JList([i \in 1..Len(v.items) |-> ValidateItem(T, v.items[i]).v]))
    ELSE Invalid

ScoreFields == {"noveltyScore", "trendsScore", "viralityPotential"}
TextFields == {"netWorthEstimate", "uniquenessSummary", "longTermViability",
               "ecosystemRisks", "adoptionDrivers", "techAppeal"}
StrListFields == {"actionableNextSteps", "keywords"}
AnalysisResultFields ==
    ScoreFields \cup TextFields \cup StrListFields
        \cup {"techStack", "projectPhases", "competitiveLandscape"}

\* the declared type of each field of AnalysisResult, applied to a value
ValidateField(f, v) ==
    IF f \in ScoreFields THEN ValidateInt(v)
    ELSE IF f \in TextFields THEN ValidateStr(v)
    ELSE IF f \in StrListFields THEN ValidateList("str", v)
    ELSE IF f = "techStack" THEN ValidateList("TechStackDetail", v)
    ELSE IF f = "projectPhases" THEN ValidateList("dict", v)
    ELSE ValidateList("CompetitorDetail", v)

\* AnalysisResult(**data): the instance, or pydantic's ValidationError
AnalysisResult(data) ==
    IF \A f \in AnalysisResultFields :
           f \in DOMAIN data.m /\ ValidateField(f, data.m[f]).ok
    THEN Return(JObj([f \in AnalysisResultFields |-> ValidateField(f, data.m[f]).v]))
    ELSE Raise(Exc("ValidationError", "validation errors for AnalysisResult"))

\* ChatResponse(reply=text)
ChatResponse(text) ==
    IF text.k = "text" THEN Return(JObj([reply |-> text]))
    ELSE Raise(Exc("ValidationError", "1 validation error for ChatResponse"))

(***************************************************************************)
(* Prompts                                                                 *)
(***************************************************************************)
create_analysis_prompt(idea) ==
    "You are ProphAI, the Strategic Innovation Core. Input Idea: \"" \o idea
        \o "\" REQUIRED JSON STRUCTURE (Strictly adhere to this format)"

chat_prompt(message) ==
    "You are a friendly and knowledgeable technical assistant. User Question: "
        \o message

(***************************************************************************)
(* POST /analyze                                                           *)
(***************************************************************************)
\* 1. Fallback data definition (the rupee sign is written Rs)
default_data ==
    JObj([ noveltyScore |-> JInt(60),
           trendsScore |-> JInt(65),
           viralityPotential |-> JInt(45),
           netWorthEstimate |-> JStr("Rs 1 Crore - Rs 2 Crore (System Fallback)"),
           uniquenessSummary |-> JStr("Could not connect to Analysis Core. Returning low-confidence base analysis. Check API Key."),
           longTermViability |-> JStr("Uncertain (Core failure prevented deep analysis)."),
           ecosystemRisks |-> JStr("Check your API key and network connection."),
           adoptionDrivers |-> JStr("Try running the server again with correct key."),
           actionableNextSteps |-> JList(<<
               JStr("1. Verify the 'API_KEY' is set correctly in environment."),
               JStr("2. Check FastAPI logs for detailed error trace and JSON format errors."),
               JStr("3. Re-run 'uvicorn app:app --reload'.")>>),
           keywords |-> JList(<<JStr("Fallback"), JStr("System Error"), JStr("Check Key")>>),
           techAppeal |-> JStr("Fallback analysis: Cannot determine true technical appeal."),
           techStack |-> JList(<<JObj([component |-> JStr("System"),
                                       technology |-> JStr("N/A"),
                                       justification |-> JStr("Failure to connect to core AI.")])>>),
           projectPhases |-> JList(<<JObj([phase |-> JStr("Error Phase"),
                                           duration |-> JStr("N/A"),
                                           focus |-> JStr("Troubleshoot Server Connection.")])>>),
           competitiveLandscape |-> JList(<<JObj([competitor |-> JStr("System Fallback"),
                                                  similarFeatures |-> JStr("N/A"),
                                                  differentiation |-> JStr("Connection Error")])>>) ])

\* not API_KEY: None or the empty string
Falsy(v) == v.k = "null" \/ (v.k = "str" /\ v.s = "")

\* the try block up to the call: the exception raised there, or the call issued
AnalyzeCall(key, idea) ==
    IF Falsy(key)
    THEN Raise(NewAPIError(<<"Gemini API Key is not set in environment variables.">>))
    ELSE Return([api_key |-> key.s,
                 model |-> "gemini-2.5-flash",
                 contents |-> create_analysis_prompt(idea),
                 config |-> "application/json"])

\* the rest of the try block, from what generate_content did: what the block
\* returns or raises (res) and the local analysis_data as the block leaves it
AnalyzeTry(o) ==
    IF o.kind = "raise" THEN [res |-> o, data |-> Unbound]
    ELSE LET parsed == json_loads(o.value)
         IN  IF parsed.kind = "raise" THEN [res |-> parsed, data |-> Unbound]
             ELSE LET d0 == parsed.value
                  IN  IF d0.k # "obj"
                      THEN [res |-> Raise(Exc("AttributeError",
                                              "object has no attribute 'get'")),
                            data |-> d0]
                      ELSE LET s1 == ListToString(d0, "ecosystemRisks")
                           IN  IF s1.kind = "raise" THEN [res |-> s1, data |-> d0]
                               ELSE LET s2 == ListToString(s1.value, "adoptionDrivers")
                                    IN  IF s2.kind = "raise"
                                        THEN [res |-> s2, data |-> s1.value]
                                        ELSE [res |-> AnalysisResult(s2.value),
                                              data |-> s2.value]

\* variant with a plausible slip: the first except clause catching every Exception
AnalyzeFallbackAny == {"Exception"}

\* except (APIError, json.JSONDecodeError, ValueError)
AnalyzeFallbackClasses == {"APIError", "JSONDecodeError", "ValueError"}

HTTPException(status_code, detail) ==
    [cls |-> "HTTPException", status_code |-> status_code, detail |-> detail]

\* the two except clauses: what the handler returns or raises, and what it prints
\* (asyncio.sleep(1) is not awaited: it builds a coroutine and has no effect)
AnalyzeExcept(res) ==
    IF res.kind = "return" THEN [res |-> res, out |-> <<>>]
    ELSE IF IsInstance(res.exc, AnalyzeFallbackClasses)
    THEN [res |-> Return(default_data),
          out |-> <<"Analysis Error (API/JSON/Validation): " \o res.exc.msg>>]
    ELSE [res |-> Raise(HTTPException(500,
                     "An unexpected server error occurred: " \o res.exc.msg)),
          out |-> <<"Internal Server Error: " \o res.exc.msg>>]

\* response_model=AnalysisResult: the returned value is validated as an
\* AnalysisResult and serialised; an HTTPException becomes its status and detail
ServeAnalyze(res) ==
    IF res.kind = "raise"
    THEN [status |-> res.exc.status_code,
          body |-> JObj([detail |-> JStr(res.exc.detail)])]
    ELSE LET m == AnalysisResult(res.value)
         IN  IF m.kind = "raise"
             THEN [status |-> 500, body |-> JStr("Internal Server Error")]
             ELSE [status |-> 200, body |-> m.value]

(***************************************************************************)
(* POST /chat                                                              *)
(***************************************************************************)
ChatCall(key, message) ==
    IF Falsy(key)
    THEN Raise(NewAPIError(<<"Gemini API Key is not set in environment variables.">>))
    ELSE Return([api_key |-> key.s,
                 model |-> "gemini-2.5-flash",
                 contents |-> chat_prompt(message),
                 config |-> ""])

\* return ChatResponse(reply=response.text)
ChatTry(o) == IF o.kind = "raise" THEN o ELSE ChatResponse(o.value)

\* variant with a plausible slip: the except clause catching APIError only
ChatFallbackAPIErrorOnly == {"APIError"}

\* except Exception
ChatFallbackClasses == {"Exception"}

ApologyReply == NotJsonText("Sorry, I can't connect to the chat service right now.")

ChatExcept(res) ==
    IF res.kind = "return" THEN [res |-> res, out |-> <<>>]
    ELSE IF IsInstance(res.exc, ChatFallbackClasses)
    THEN [res |-> ChatResponse(ApologyReply),
          out |-> <<"Chat Error: " \o res.exc.msg>>]
    ELSE [res |-> res, out |-> <<>>]

\* response_model=ChatResponse; an exception leaving the handler is a 500
ServeChat(res) ==
    IF res.kind = "raise"
    THEN [status |-> 500, body |-> JStr("Internal Server Error")]
    ELSE [status |-> 200, body |-> res.value]

(***************************************************************************)
(* Inputs: request bodies, and what the completion service can do          *)
(***************************************************************************)
Ideas == {"", "A todo app with AI reminders"}
Messages == {"What is AI?", ""}

RequestBodies ==
    {[route |-> "/analyze", text |-> i] : i \in Ideas}
        \cup {[route |-> "/chat", text |-> m] : m \in Messages}

\* os.environ.get("GEMINI_API_KEY")
Credentials == {JNull, JStr(""), JStr("test-key")}

\* exceptions generate_content raises: the service's error responses (APIError
\* subclasses) and the transport's own errors
CallExceptions ==
    { Exc("ClientError", "401 UNAUTHENTICATED. API key not valid"),
      Exc("ClientError", "429 RESOURCE_EXHAUSTED. Quota exceeded"),
      Exc("ClientError", "400 INVALID_ARGUMENT. Malformed request"),
      Exc("ServerError", "503 UNAVAILABLE. The model is overloaded"),
      Exc("ConnectError", "[Errno -2] Name or service not known"),
      Exc("ReadTimeout", "The read operation timed out") }

Absent == [k |-> "absent"]

TechItem == JObj([component |-> JStr("UI"), technology |-> JStr("React"),
                  justification |-> JStr("Scalable")])
RivalItem == JObj([competitor |-> JStr("A"), similarFeatures |-> JStr("AI"),
                   differentiation |-> JStr("Niche")])

PayloadKeys == AnalysisResultFields \cup {"notes"}

\* an object of the structure the prompt asks for
BasePayload ==
    [ noveltyScore |-> JInt(85),
      trendsScore |-> JInt(70),
      viralityPotential |-> JInt(30),
      netWorthEstimate |-> JStr("5 Crore"),
      uniquenessSummary |-> JStr("USP"),
      longTermViability |-> JStr("Resilient"),
      ecosystemRisks |-> JStr("risk A"),
      adoptionDrivers |-> JStr("driver"),
      actionableNextSteps |-> JList(<<JStr("1. Build"), JStr("2. Ship")>>),
      keywords |-> JList(<<JStr("ai")>>),
      techAppeal |-> JStr("High"),
      techStack |-> JList(<<TechItem>>),
      projectPhases |-> JList(<<JObj([phase |-> JStr("Phase 1"),
                                      duration |-> JStr("4 Weeks")])>>),
      competitiveLandscape |-> JList(<<RivalItem>>),
      notes |-> Absent ]

\* the other values a key of the object may carry
Alternatives ==
    [ noveltyScore |-> {JStr("85"), JStr("high"), JInt(150), JInt(0 - 1), JInt(0),
                        JInt(100), JNull, Absent},
      trendsScore |-> {JInt(101), JStr("-7"), Absent},
      viralityPotential |-> {JList(<<JInt(1)>>), Absent},
      netWorthEstimate |-> {JList(<<JStr("a"), JStr("b")>>), Absent},
      uniquenessSummary |-> {JNull},
      longTermViability |-> {Absent},
      ecosystemRisks |-> {JList(<<JStr("risk A"), JStr("risk B")>>), JList(<<>>),
                          JList(<<JStr("solo")>>), JList(<<JInt(1), JInt(2)>>),
                          JList(<<JStr("a"), JNull>>), JNull, Absent},
      adoptionDrivers |-> {JList(<<JStr("d1"), JStr("d2"), JStr("d3")>>),
                           JList(<<JList(<<>>)>>), Absent},
      techAppeal |-> {JList(<<JStr("x")>>)},
      actionableNextSteps |-> {JStr("step"), JList(<<JStr("a"), JNull>>), JList(<<>>)},
      keywords |-> {Absent, JList(<<TechItem>>)},
      techStack |-> {JList(<<JObj([component |-> JStr("UI"),
                                   technology |-> JStr("React")])>>),
                     JList(<<JObj([component |-> JStr("UI"),
                                   technology |-> JStr("React"),
                                   justification |-> JStr("Scalable"),
                                   licence |-> JStr("MIT")])>>),
                     JList(<<JStr("React")>>), JList(<<>>)},
      projectPhases |-> {JList(<<JObj([step |-> JInt(1)])>>), JList(<<JStr("x")>>),
                         JObj([phase |-> JStr("Phase 1")])},
      competitiveLandscape |-> {JList(<<JObj([competitor |-> JNull,
                                              similarFeatures |-> JStr("AI"),
                                              differentiation |-> JStr("Niche")])>>)},
      notes |-> {JInt(1)} ]

\* the base object with at most n keys given another value
RECURSIVE Deviating(_)
Deviating(n) ==
    IF n = 0 THEN {BasePayload}
    ELSE LET prev == Deviating(n - 1)
         IN  prev \cup
             UNION { { [p EXCEPT ![f] = a] : a \in Alternatives[f] } :
                     <<p, f>> \in { q \in prev \X PayloadKeys : q[1][q[2]] = BasePayload[q[2]] } }

\* the JSON object: the keys that are present
AsObject(p) == JObj([f \in {g \in PayloadKeys : p[g] # Absent} |-> p[f]])

JsonObjects == {AsObject(p) : p \in Deviating(MaxDeviations)}

\* JSON texts whose top-level value is not an object
JsonNonObjects == {JList(<<>>), JList(<<AsObject(BasePayload)>>), JStr("ok"),
                   JInt(42), JNull}

\* response.text
Texts ==
    {NoText, NotJsonText(""), NotJsonText("I cannot help with that."),
     NotJsonText("{\"noveltyScore\": 85,")}
        \cup {JsonText(v) : v \in JsonObjects \cup JsonNonObjects}

\* a few texts of each kind, for the runs with several requests
FewTexts ==
    {NoText, NotJsonText("I cannot help with that."),
     JsonText(AsObject(BasePayload)), JsonText(JList(<<>>))}

\* what generate_content does: raises, or returns a response with this text
Outcomes(texts) ==
    {Raise(e) : e \in CallExceptions} \cup {Return(t) : t \in texts}

(***************************************************************************)
(* State                                                                   *)
(***************************************************************************)
Requests == 1..NumRequests

NoRequest == [route |-> "", text |-> ""]
NoCall == [kind |-> "none"]
NoOutcome == [kind |-> "none"]
NoResponse == [status |-> 0]

\* the print at import time when the key is missing
Startup(key) ==
    IF Falsy(key)
    THEN <<"CRITICAL: GEMINI_API_KEY environment variable not set. Application will fail on deployment.">>
    ELSE <<>>

Init ==
    /\ API_KEY \in Credentials
    /\ pc = [r \in Requests |-> "idle"]
    /\ request = [r \in Requests |-> NoRequest]
    /\ loop = 0
    /\ call = [r \in Requests |-> NoCall]
    /\ outcome = [r \in Requests |-> NoOutcome]
    /\ analysis_data = [r \in Requests |-> Unbound]
    /\ resp = [r \in Requests |-> NoResponse]
    /\ stdout = Startup(API_KEY)

\* a client posts a request; the server accepts it and schedules its handler
Receive(r) ==
    /\ pc[r] = "idle"
    /\ \E b \in RequestBodies : request' = [request EXCEPT ![r] = b]
    /\ pc' = [pc EXCEPT ![r] = "queued"]
    /\ UNCHANGED <<API_KEY, loop, call, outcome, analysis_data, resp, stdout>>

\* the handler finishes: its response is sent and the event loop is free again
Finish(r, served, data, out) ==
    /\ resp' = [resp EXCEPT ![r] = served]
    /\ analysis_data' = [analysis_data EXCEPT ![r] = data]
    /\ stdout' = stdout \o out
    /\ pc' = [pc EXCEPT ![r] = "responded"]
    /\ loop' = 0

\* the event loop runs analyze_project up to client.models.generate_content;
\* the call is synchronous, so the loop's thread stays in it until it returns
AnalyzeStart(r) ==
    /\ pc[r] = "queued"
    /\ request[r].route = "/analyze"
    /\ loop = 0
    /\ LET c == AnalyzeCall(API_KEY, request[r].text)
       IN  IF c.kind = "raise"
           THEN LET h == AnalyzeExcept(c)
                IN  /\ Finish(r, ServeAnalyze(h.res), Unbound, h.out)
                    /\ UNCHANGED <<call>>
           ELSE /\ call' = [call EXCEPT ![r] = c]
                /\ pc' = [pc EXCEPT ![r] = "calling"]
                /\ loop' = r
                /\ UNCHANGED <<analysis_data, resp, stdout>>
    /\ UNCHANGED <<API_KEY, request, outcome>>

\* generate_content returns or raises, and analyze_project runs to its end
AnalyzeFinish(r, texts) ==
    /\ pc[r] = "calling"
    /\ request[r].route = "/analyze"
    /\ loop = r
    /\ \E o \in Outcomes(texts) :
          LET t == AnalyzeTry(o)
              h == AnalyzeExcept(t.res)
          IN  /\ outcome' = [outcome EXCEPT ![r] = o]
              /\ Finish(r, ServeAnalyze(h.res), t.data, h.out)
    /\ UNCHANGED <<API_KEY, request, call>>

ChatStart(r) ==
    /\ pc[r] = "queued"
    /\ request[r].route = "/chat"
    /\ loop = 0
    /\ LET c == ChatCall(API_KEY, request[r].text)
       IN  IF c.kind = "raise"
           THEN LET h == ChatExcept(c)
                IN  /\ Finish(r, ServeChat(h.res), Unbound, h.out)
                    /\ UNCHANGED <<call>>
           ELSE /\ call' = [call EXCEPT ![r] = c]
                /\ pc' = [pc EXCEPT ![r] = "calling"]
                /\ loop' = r
                /\ UNCHANGED <<analysis_data, resp, stdout>>
    /\ UNCHANGED <<API_KEY, request, outcome>>

ChatFinish(r, texts) ==
    /\ pc[r] = "calling"
    /\ request[r].route = "/chat"
    /\ loop = r
    /\ \E o \in Outcomes(texts) :
          LET h == ChatExcept(ChatTry(o))
          IN  /\ outcome' = [outcome EXCEPT ![r] = o]
              /\ Finish(r, ServeChat(h.res), Unbound, h.out)
    /\ UNCHANGED <<API_KEY, request, call>>

\* one request, every response text
Next ==
    \/ Receive(1)
    \/ AnalyzeStart(1)
    \/ AnalyzeFinish(1, Texts)
    \/ ChatStart(1)
    \/ ChatFinish(1, Texts)

Spec == Init /\ [][Next]_vars

\* simultaneous requests, a few response texts of each kind
ConcNext ==
    \E r \in Requests :
        \/ Receive(r)
        \/ AnalyzeStart(r)
        \/ AnalyzeFinish(r, FewTexts)
        \/ ChatStart(r)
        \/ ChatFinish(r, FewTexts)

ConcSpec == Init /\ [][ConcNext]_vars

(***************************************************************************)
(* Properties                                                              *)
(***************************************************************************)
Done(r) == pc[r] = "responded"
AnalyzeDone(r) == Done(r) /\ request[r].route = "/analyze"
ChatDone(r) == Done(r) /\ request[r].route = "/chat"

\* the response is HTTP 200 with exactly the fallback payload
FallbackSent(r) == resp[r] = [status |-> 200, body |-> default_data]

\* the completion service answered request r with the JSON text of a value
GotJson(r) == outcome[r].kind = "return" /\ IsJsonText(outcome[r].value)
JsonOf(r) == outcome[r].value.json

RepairedFields == {"ecosystemRisks", "adoptionDrivers"}

IsStrList(v) == v.k = "list" /\ \A i \in 1..Len(v.items) : v.items[i].k = "str"

\* a list of objects that carry every key of keys with a string value
IsTripleList(keys, v) ==
    /\ v.k = "list"
    /\ \A i \in 1..Len(v.items) :
          /\ v.items[i].k = "obj"
          /\ keys \subseteq DOMAIN v.items[i].m
          /\ \A f \in keys : v.items[i].m[f].k = "str"

IsRecordList(v) == v.k = "list" /\ \A i \in 1..Len(v.items) : v.items[i].k = "obj"

\* the type the data model declares for a field
HasDeclaredType(f, v) ==
    IF f \in ScoreFields THEN v.k = "int"
    ELSE IF f \in TextFields THEN v.k = "str"
    ELSE IF f \in StrListFields THEN IsStrList(v)
    ELSE IF f = "techStack" THEN IsTripleList(TechStackDetailFields, v)
    ELSE IF f = "projectPhases" THEN IsRecordList(v)
    ELSE IsTripleList(CompetitorDetailFields, v)

\* an object with every field of the schema, each of its declared type
SchemaConformant(v) ==
    /\ v.k = "obj"
    /\ \A f \in AnalysisResultFields : f \in DOMAIN v.m /\ HasDeclaredType(f, v.m[f])

\* the same, the two repaired fields also allowed to be lists of strings
ConformantAfterRepair(v) ==
    /\ v.k = "obj"
    /\ \A f \in AnalysisResultFields :
          /\ f \in DOMAIN v.m
          /\ \/ HasDeclaredType(f, v.m[f])
             \/ f \in RepairedFields /\ IsStrList(v.m[f])

\* C1: with the credential absent or empty, every /analyze request completes
\* with HTTP 200 and the fallback payload.
C1_MissingCredentialFallsBack ==
    \A r \in Requests : (AnalyzeDone(r) /\ Falsy(API_KEY)) => FallbackSent(r)

\* C2: with the credential present, a failure of the completion call of any
\* kind completes the /analyze request with HTTP 200 and the fallback payload.
C2_CallFailureFallsBack ==
    \A r \in Requests :
        (AnalyzeDone(r) /\ ~Falsy(API_KEY) /\ outcome[r].kind = "raise")
            => FallbackSent(r)

\* C3: a response text that is not valid JSON, or is JSON that after the
\* two-field repair is not a schema-conformant object, completes the /analyze
\* request with HTTP 200 and the fallback payload.
C3_BadOutputFallsBack ==
    \A r \in Requests :
        (/\ AnalyzeDone(r)
         /\ outcome[r].kind = "return"
         /\ outcome[r].value.k = "text"
         /\ IsJsonText(outcome[r].value) => ~ConformantAfterRepair(JsonOf(r)))
            => FallbackSent(r)

\* C4: an object that is schema-conformant except that noveltyScore is a JSON
\* string is answered with the fallback payload; the string is never coerced.
C4_StringScoreFallsBack ==
    \A r \in Requests :
        (/\ AnalyzeDone(r)
         /\ GotJson(r)
         /\ JsonOf(r).k = "obj"
         /\ "noveltyScore" \in DOMAIN JsonOf(r).m
         /\ JsonOf(r).m["noveltyScore"].k = "str"
         /\ ConformantAfterRepair(
                JObj([JsonOf(r).m EXCEPT !["noveltyScore"] = JInt(0)])))
            => FallbackSent(r)

\* C5: a failure that is none of the four recognized kinds (here: the service
\* answers with a response that has no text) is never turned into the fallback
\* payload; the request completes with HTTP 500 and a detail string.
C5_UnrecognizedFailureIs500 ==
    \A r \in Requests :
        (AnalyzeDone(r) /\ outcome[r] = Return(NoText))
            => /\ resp[r].status = 500
               /\ resp[r].body.k = "obj"
               /\ DOMAIN resp[r].body.m = {"detail"}
               /\ resp[r].body.m["detail"].k = "str"

C5_Witness ==
    \E r \in Requests :
        AnalyzeDone(r) /\ outcome[r] = Return(NoText) /\ resp[r].status = 500

\* some failure happened while /chat handled request r
ChatFailed(r) ==
    \/ Falsy(API_KEY)
    \/ outcome[r].kind = "raise"
    \/ outcome[r] = Return(NoText)

\* C6: /chat always completes with HTTP 200; after any failure the reply is
\* the fixed apology, otherwise it is the service's response text.
C6_ChatAlways200 ==
    \A r \in Requests :
        ChatDone(r) =>
            /\ resp[r].status = 200
            /\ resp[r].body.k = "obj"
            /\ DOMAIN resp[r].body.m = {"reply"}
            /\ IF ChatFailed(r)
               THEN resp[r].body.m["reply"]
                        = NotJsonText("Sorry, I can't connect to the chat service right now.")
               ELSE resp[r].body.m["reply"] = outcome[r].value

C6_Witness ==
    \E r \in Requests :
        /\ ChatDone(r)
        /\ outcome[r].kind = "raise"
        /\ resp[r].status = 200
        /\ resp[r].body.m["reply"] = ApologyReply

\* C7: every body /analyze returns with HTTP 200 is a complete
\* EvaluationResult: the 14 fields with their declared types, and each of the
\* three scores an integer within 0..100.
C7_EveryBodyIsEvaluationResult ==
    \A r \in Requests :
        (AnalyzeDone(r) /\ resp[r].status = 200) =>
            /\ SchemaConformant(resp[r].body)
            /\ DOMAIN resp[r].body.m = AnalysisResultFields
            /\ \A f \in ScoreFields : resp[r].body.m[f].n \in 0..100

\* the elements' strings with one space between consecutive ones
RECURSIVE JoinedUpTo(_, _)
JoinedUpTo(xs, n) ==
    IF n = 0 THEN ""
    ELSE IF n = 1 THEN xs[1].s
    ELSE JoinedUpTo(xs, n - 1) \o " " \o xs[n].s

\* no repaired field is a list with an element that is not a string
Repairable(v) ==
    \A f \in RepairedFields \cap DOMAIN v.m : v.m[f].k = "list" => IsStrList(v.m[f])

\* C8: ecosystemRisks and adoptionDrivers, when they arrive as lists of
\* strings, are replaced before validation by their elements joined with one
\* space; a string is left as it is; no other key is changed; the validated
\* response carries the joined strings.
C8_ListsAreSpaceJoined ==
    \A r \in Requests :
        (AnalyzeDone(r) /\ GotJson(r) /\ JsonOf(r).k = "obj" /\ Repairable(JsonOf(r)))
            => LET v == JsonOf(r)
                   d == analysis_data[r]
               IN  /\ d.k = "obj"
                   /\ DOMAIN d.m = DOMAIN v.m
                   /\ \A f \in DOMAIN v.m :
                         d.m[f] = IF f \in RepairedFields /\ v.m[f].k = "list"
                                  THEN JStr(JoinedUpTo(v.m[f].items, Len(v.m[f].items)))
                                  ELSE v.m[f]
                   /\ DictGet(v, "ecosystemRisks") = JList(<<JStr("risk A"), JStr("risk B")>>)
                         => d.m["ecosystemRisks"] = JStr("risk A risk B")
                   /\ (resp[r].status = 200 /\ ConformantAfterRepair(v))
                         => \A f \in RepairedFields : resp[r].body.m[f] = d.m[f]

C8_Witness ==
    \E r \in Requests :
        /\ AnalyzeDone(r)
        /\ GotJson(r)
        /\ JsonOf(r).k = "obj"
        /\ DictGet(JsonOf(r), "ecosystemRisks") = JList(<<JStr("risk A"), JStr("risk B")>>)
        /\ DictGet(JsonOf(r), "adoptionDrivers")
               = JList(<<JStr("d1"), JStr("d2"), JStr("d3")>>)
        /\ resp[r].status = 200
        /\ resp[r].body.m["ecosystemRisks"] = JStr("risk A risk B")
        /\ resp[r].body.m["adoptionDrivers"] = JStr("d1 d2 d3")

\* the items of the two lists of triples carry exactly the declared keys
ExactTriples(v) ==
    /\ \A i \in 1..Len(v.m["techStack"].items) :
          DOMAIN v.m["techStack"].items[i].m = TechStackDetailFields
    /\ \A i \in 1..Len(v.m["competitiveLandscape"].items) :
          DOMAIN v.m["competitiveLandscape"].items[i].m = CompetitorDetailFields

\* C9: a fully schema-conformant JSON object is returned field for field: each
\* of the 14 fields of the response equals the field of the object (the two
\* repaired fields their space-joined form), with HTTP 200.
C9_RoundTrip ==
    \A r \in Requests :
        (/\ AnalyzeDone(r)
         /\ GotJson(r)
         /\ ConformantAfterRepair(JsonOf(r))
         /\ ExactTriples(JsonOf(r)))
            => LET v == JsonOf(r)
               IN  /\ resp[r].status = 200
                   /\ DOMAIN resp[r].body.m = AnalysisResultFields
                   /\ \A f \in AnalysisResultFields :
                         resp[r].body.m[f] =
                             IF f \in RepairedFields /\ v.m[f].k = "list"
                             THEN JStr(JoinedUpTo(v.m[f].items, Len(v.m[f].items)))
                             ELSE v.m[f]

C9_Witness ==
    \E r \in Requests :
        /\ AnalyzeDone(r)
        /\ GotJson(r)
        /\ JsonOf(r) = AsObject([BasePayload EXCEPT !["noveltyScore"] = JInt(100),
                                                    !["notes"] = JInt(1)])
        /\ resp[r].status = 200
        /\ resp[r].body.m["noveltyScore"] = JInt(100)
        /\ resp[r].body.m["techStack"] = JList(<<TechItem>>)
        /\ resp[r].body # default_data

\* C10: while one request's completion call is outstanding only that request's
\* handler is suspended: another request the server has accepted can be
\* started (and so can issue its own call and complete) meanwhile.
C10_OnlyCallerSuspended ==
    \A a, b \in Requests :
        (a # b /\ pc[a] = "calling" /\ pc[b] = "queued")
            => ENABLED (AnalyzeStart(b) \/ ChatStart(b))

====
